---- MODULE Spec2Model ----
(***************************************************************************)
(* Buckley-Leverett.py: collocation sampling, the training loop and the    *)
(* export of the predicted field, as a state machine over main().          *)
(*                                                                         *)
(* Real numbers are fixed-point integers in units of 1/Unit, so that       *)
(* 0.0001, 0.5, 2.625 and every axis point of the modelled resolutions are *)
(* exact.  Arrays are sequences (index k of the code is k + 1 here), a     *)
(* 2-D array is a sequence of rows.  The network and the optimizer are     *)
(* symbolic: the parameters are the sequence of gradients Adam has         *)
(* applied, a prediction is the pair (parameters, input point), and a      *)
(* floating-point result is finite or not, chosen nondeterministically.    *)
(***************************************************************************)
EXTENDS Integers, Sequences, FiniteSets, TLC

\* ---------------------------------------------------------------- bounds
MaxNx == 2          \* full run: grid resolution in x
MaxNt == 2          \* full run: grid resolution in t
MaxNf == 2          \* full run: interior sample count
MaxEpochs == 2      \* full run: epoch budget
FMaxN == 1          \* fair run: grid resolution in x and in t
FMaxEpochs == 3     \* fair run: epoch budget
SMaxNx == 3         \* sampling run: grid resolution in x
SMaxNt == 2         \* sampling run: grid resolution in t
SMaxNf == 2         \* sampling run: interior sample count
MaxLen == 4         \* IC run: length of the array passed to IC

\* ------------------------------------------------------ program constants
Unit == 24 * 10000                    \* 1.0 in fixed point; 0.0001 is 24
X_LO == -((2625 * Unit) \div 1000)    \* np.linspace(-2.625, 2.5, num_x)
X_HI == (25 * Unit) \div 10
T_LO == 0 * Unit                      \* np.linspace(0, 1.5, num_t)
T_HI == (15 * Unit) \div 10
XS_LO == -Unit                        \* np.linspace(-1, 1, num_x)
XS_HI == 1 * Unit
TS_LO == 0 * Unit                     \* np.linspace(0, 1.5, num_t)
TS_HI == (15 * Unit) \div 10
IC_LO == -(Unit \div 2)               \* -0.5 <= x[i]
IC_HI == 0 * Unit                     \* x[i] <= 0

\* ------------------------------------------------------- numpy operators
Abs(v) == IF v < 0 THEN -v ELSE v

\* np.linspace(start, stop, num) for num >= 0 (a negative num raises).
Linspace(start, stop, num) ==
    [i \in 1..num |->
        IF num = 1 THEN start
        ELSE start + ((i - 1) * (stop - start)) \div (num - 1)]

LinspaceRaises(num) == num < 0

\* np.meshgrid(a, b), indexing 'xy': two arrays of shape (len(b), len(a)).
Meshgrid(a, b) ==
    << [i \in 1..Len(b) |-> [j \in 1..Len(a) |-> a[j]]],
       [i \in 1..Len(b) |-> [j \in 1..Len(a) |-> b[i]]] >>

RECURSIVE FlattenF(_)
\* A column-major flatten (order='F'): what a transposed grid would give.
FlattenF(m) ==
    IF Len(m) = 0 \/ Len(m[1]) = 0 THEN << >>
    ELSE [i \in 1..Len(m) |-> m[i][1]]
         \o FlattenF([i \in 1..Len(m) |-> Tail(m[i])])

RECURSIVE Flatten(_)
\* ndarray.flatten(): row-major, the rows one after the other.
Flatten(m) == IF Len(m) = 0 THEN << >> ELSE m[1] \o Flatten(Tail(m))

\* v[:, None]: a 1-D array as a column, one row per element.
AddAxis(v) == [i \in 1..Len(v) |-> << v[i] >>]

\* m[:, j]
Col(m, j) == [i \in 1..Len(m) |-> m[i][j + 1]]

\* v[ids]
Take(v, ids) == [k \in 1..Len(ids) |-> v[ids[k] + 1]]

\* m[ids, j]
TakeCol(m, ids, j) == [k \in 1..Len(ids) |-> m[ids[k] + 1][j + 1]]

\* m[ids, j] raises IndexError when column j does not exist.
TakeColRaises(m, ids, j) ==
    \E k \in 1..Len(ids) : ids[k] + 1 > Len(m) \/ j + 1 > Len(m[ids[k] + 1])

\* np.hstack((a, b)) of two 2-D arrays with the same number of rows.
Hstack(a, b) == [i \in 1..Len(a) |-> a[i] \o b[i]]

\* np.random.choice(n, k, replace=False): any k distinct values of 0..n-1,
\* in any order.
Choice(n, k) ==
    { s \in [1..k -> 0..(n - 1)] :
        \A i, j \in 1..k : i # j => s[i] # s[j] }

ChoiceRaises(n, k) == (n <= 0 /\ k # 0) \/ k > n \/ k < 0

\* ------------------------------------------------------------------- IC
\* IC with the lower bound exclusive.
IC_strict(xc) ==
    [i \in 1..Len(xc) |->
        IF IC_LO < xc[i][1] /\ xc[i][1] <= IC_HI THEN 1 ELSE 0]

\* IC(x): x is an (N, 1) array, the result a 1-D array of N values.
IC(xc) ==
    [i \in 1..Len(xc) |->
        IF IC_LO <= xc[i][1] /\ xc[i][1] <= IC_HI THEN 1 ELSE 0]

\* ---------------------------------------------------------------- torch
RECURSIVE Pow2(_)
Pow2(n) == IF n = 0 THEN 1 ELSE 2 * Pow2(n - 1)

RECURSIVE Ulp32(_, _)
\* The spacing of float32 (24-bit significand) at magnitude a, in the
\* fixed-point unit: u starts at 1 and doubles until a < u * 2^24.
Ulp32(a, u) == IF a < u * Pow2(24) THEN u ELSE Ulp32(a, 2 * u)

\* dtype=torch.float32: round to the nearest value with a 24-bit significand.
F32(v) ==
    LET u == Ulp32(Abs(v), 1)
        q == (2 * Abs(v) + u) \div (2 * u)
    IN  IF v < 0 THEN -(q * u) ELSE q * u

\* A name main() has not bound yet.
None == [type |-> "NoneType", data |-> << >>, dtype |-> "", requires_grad |-> FALSE]

NdArray(rows) ==
    [type |-> "ndarray", data |-> rows, dtype |-> "float64", requires_grad |-> FALSE]

\* torch.tensor(a, dtype=torch.float32, requires_grad=rg) of a 2-D array.
Tensor2(a, rg) ==
    [data |-> [i \in 1..Len(a.data) |->
                 [j \in 1..Len(a.data[i]) |-> F32(a.data[i][j])]],
     type |-> "Tensor", dtype |-> "float32", requires_grad |-> rg]

\* torch.tensor(a, dtype=torch.float32) of a 1-D array.
Tensor1(a) ==
    [data |-> [i \in 1..Len(a.data) |-> F32(a.data[i])],
     type |-> "Tensor", dtype |-> "float32", requires_grad |-> FALSE]

\* to_numpy(input): detach().cpu().numpy() of a tensor, an ndarray as it is.
to_numpy(input) ==
    IF input.type = "Tensor"
    THEN [type |-> "ndarray", data |-> input.data, dtype |-> input.dtype,
          requires_grad |-> FALSE]
    ELSE input

to_numpyRaises(input) == input.type \notin {"Tensor", "ndarray"}

\* ------------------------------------------------- network and optimizer
\* The parameters are the gradients Adam has applied, oldest first; they are
\* finite while every applied gradient was.
ThetaFinite(th) ==
    \A i \in 1..Len(th) : \A j \in 1..Len(th[i]) : th[i][j].finite

\* DNN.forward at one input row: the prediction is determined by the
\* parameters and the point.
Net(th, p) == [params |-> Len(th), finite |-> ThetaFinite(th), pt |-> p]

\* self.net(x) on a batch: one output row (of one column) per input row.
Forward(th, batch) ==
    [type |-> "Tensor",
     data |-> [k \in 1..Len(batch.data) |-> << Net(th, batch.data[k]) >>],
     dtype |-> "float32", requires_grad |-> FALSE]

\* The terms of ((u_ic_nn - u_ic) ** 2): prediction k against target k.
IcResiduals(th, x_ic_b, u_ic_b) ==
    [k \in 1..Len(x_ic_b.data) |->
        [pred |-> Col(Forward(th, x_ic_b).data, 0)[k], target |-> u_ic_b.data[k]]]

\* The outcomes a floating-point mean over n terms can have: non-finite once
\* the parameters are, NaN over an empty batch, else finite or overflowed.
FiniteOutcomes(th, n) == IF ThetaFinite(th) /\ n > 0 THEN BOOLEAN ELSE {FALSE}

NoLoss == [kind |-> "unbound", at |-> 0, n |-> 0, finite |-> TRUE]
NoTotal == [kind |-> "unbound", at |-> 0, terms |-> << >>, finite |-> TRUE]

W_PDE == Unit \div 10      \* 0.1*loss_pde
W_IC == 10 * Unit          \* 10*loss_ic

\* ---------------------------------------------------------------- state
VARIABLES
    cfg,                                  \* the constants of lines 100-113
    pc, exc,                              \* position in main(), exception raised
    x, t, t_grid, x_grid, T, X,           \* training axes and grid
    xs, ts, ts_grid, xs_grid, Ts, Xs,     \* evaluation axes and grid
    id_ic, id_f,                          \* drawn indices
    x_ic, t_ic, x_ic_train, u_ic_train,   \* IC points and targets
    x_int, t_int, x_int_train, x_test,    \* interior points, dense grid
    theta, grad, adam_step,               \* parameters, .grad, Adam's step count
    epoch, loss_pde, loss_ic, loss,       \* loop counter, closure's locals
    stdout, u_pred, mat,                  \* printed lines, prediction, saved file
    x_arg, u_init                         \* a call of IC on its own

cfgVars == << cfg >>
axisVars == << x, t, t_grid, x_grid, T, X, xs, ts, ts_grid, xs_grid, Ts, Xs >>
idVars == << id_ic, id_f >>
icVars == << x_ic, t_ic, x_ic_train, u_ic_train >>
intVars == << x_int, t_int, x_int_train, x_test >>
netVars == << theta, grad, adam_step >>
loopVars == << epoch, loss_pde, loss_ic, loss >>
outVars == << stdout, u_pred, mat >>
callVars == << x_arg, u_init >>
vars == << cfg, pc, exc, axisVars, idVars, icVars, intVars, netVars, loopVars,
           outVars, callVars >>

\* ----------------------------------------------------------------- Init
Min(a, b) == IF a < b THEN a ELSE b

\* The constants of main() at resolution nx by nt, ni IC samples, nf interior
\* samples and ep epochs.
ProgramCfg(nx, nt, ni, nf, ep) ==
    [num_x |-> nx, num_t |-> nt, num_i_train |-> ni, num_f_train |-> nf,
     epochs |-> ep,
     x_lo |-> X_LO, x_hi |-> X_HI, t_lo |-> T_LO, t_hi |-> T_HI,
     xs_lo |-> XS_LO, xs_hi |-> XS_HI, ts_lo |-> TS_LO, ts_hi |-> TS_HI]

\* Nothing of main() has run: every name is unbound.
Unbound(c) ==
    /\ cfg = c
    /\ exc = "none"
    /\ x = << >> /\ t = << >> /\ t_grid = << >> /\ x_grid = << >>
    /\ T = << >> /\ X = << >>
    /\ xs = << >> /\ ts = << >> /\ ts_grid = << >> /\ xs_grid = << >>
    /\ Ts = << >> /\ Xs = << >>
    /\ id_ic = << >> /\ id_f = << >>
    /\ x_ic = << >> /\ t_ic = << >> /\ x_ic_train = None /\ u_ic_train = None
    /\ x_int = << >> /\ t_int = << >> /\ x_int_train = None /\ x_test = None
    /\ theta = << >> /\ grad = << >> /\ adam_step = 0
    /\ epoch = 0 /\ loss_pde = NoLoss /\ loss_ic = NoLoss /\ loss = NoTotal
    /\ stdout = << >> /\ u_pred = None /\ mat = << >>
    /\ u_init = << >>

InitState(c) == Unbound(c) /\ pc = "axes" /\ x_arg = << >>

\* As in main(), num_i_train = num_x and num_f_train is at most num_x*num_t.
Init ==
    \E nx \in 1..MaxNx, nt \in 1..MaxNt, ep \in 1..MaxEpochs :
      \E nf \in 1..Min(MaxNf, nx * nt) :
        InitState(ProgramCfg(nx, nt, nx, nf, ep))

\* ------------------------------------------------------------- sampling
Raise(e) ==
    /\ pc' = "error" /\ exc' = e

\* Lines 106-116: both axis pairs, their meshgrids and the flattened columns.
BuildAxes ==
    /\ pc = "axes"
    /\ IF LinspaceRaises(cfg.num_x) \/ LinspaceRaises(cfg.num_t)
       THEN /\ Raise("ValueError")
            /\ UNCHANGED axisVars
       ELSE LET xa == Linspace(cfg.x_lo, cfg.x_hi, cfg.num_x)
                ta == Linspace(cfg.t_lo, cfg.t_hi, cfg.num_t)
                g == Meshgrid(ta, xa)
                xsa == Linspace(cfg.xs_lo, cfg.xs_hi, cfg.num_x)
                tsa == Linspace(cfg.ts_lo, cfg.ts_hi, cfg.num_t)
                gs == Meshgrid(tsa, xsa)
            IN  /\ x' = xa /\ t' = ta
                /\ t_grid' = g[1] /\ x_grid' = g[2]
                /\ T' = AddAxis(Flatten(g[1]))
                /\ X' = AddAxis(Flatten(g[2]))
                /\ xs' = xsa /\ ts' = tsa
                /\ ts_grid' = gs[1] /\ xs_grid' = gs[2]
                /\ Ts' = AddAxis(Flatten(gs[1]))
                /\ Xs' = AddAxis(Flatten(gs[2]))
                /\ pc' = "id_ic" /\ exc' = exc
    /\ UNCHANGED << cfgVars, idVars, icVars, intVars, netVars, loopVars,
                    outVars, callVars >>

\* Line 118.
SampleIc ==
    /\ pc = "id_ic"
    /\ IF ChoiceRaises(cfg.num_x, cfg.num_i_train)
       THEN /\ Raise("ValueError")
            /\ UNCHANGED id_ic
       ELSE /\ id_ic' \in Choice(cfg.num_x, cfg.num_i_train)
            /\ pc' = "id_f" /\ exc' = exc
    /\ UNCHANGED << cfgVars, axisVars, id_f, icVars, intVars, netVars, loopVars,
                    outVars, callVars >>

\* Line 119.
SampleF ==
    /\ pc = "id_f"
    /\ IF ChoiceRaises(cfg.num_x * cfg.num_t, cfg.num_f_train)
       THEN /\ Raise("ValueError")
            /\ UNCHANGED id_f
       ELSE /\ id_f' \in Choice(cfg.num_x * cfg.num_t, cfg.num_f_train)
            /\ pc' = "ic" /\ exc' = exc
    /\ UNCHANGED << cfgVars, axisVars, id_ic, icVars, intVars, netVars, loopVars,
                    outVars, callVars >>

\* The target of IC point j taken from axis point j instead of the drawn one.
IcTargets_unsampled(xg, ids) == IC(AddAxis(TakeCol(xg, [k \in 1..Len(ids) |-> k - 1], 0)))

\* Lines 121 and 124: IC(x_grid[id_ic, 0][:, None]).
IcTargets(xg, ids) == IC(AddAxis(TakeCol(xg, ids, 0)))

\* Lines 121-124: the IC points (t, x) and their targets.
BuildIC ==
    /\ pc = "ic"
    /\ IF TakeColRaises(x_grid, id_ic, 0)
       THEN /\ Raise("IndexError")
            /\ UNCHANGED icVars
       ELSE /\ x_ic' = AddAxis(TakeCol(x_grid, id_ic, 0))
            /\ t_ic' = AddAxis(TakeCol(t_grid, id_ic, 0))
            /\ x_ic_train' = NdArray(Hstack(t_ic', x_ic'))
            /\ u_ic_train' = NdArray(IcTargets(x_grid, id_ic))
            /\ pc' = "interior" /\ exc' = exc
    /\ UNCHANGED << cfgVars, axisVars, idVars, intVars, netVars, loopVars,
                    outVars, callVars >>

\* The dense grid taken from the training axes instead of the physical ones.
BuildInterior_aux ==
    /\ pc = "interior"
    /\ x_int' = AddAxis(Take(Col(X, 0), id_f))
    /\ t_int' = AddAxis(Take(Col(T, 0), id_f))
    /\ x_int_train' = NdArray(Hstack(t_int', x_int'))
    /\ x_test' = NdArray(Hstack(T, X))
    /\ pc' = "tensors"
    /\ UNCHANGED << cfgVars, exc, axisVars, idVars, icVars, netVars, loopVars,
                    outVars, callVars >>

\* Lines 126-129: the interior points (t, x) and the dense evaluation grid.
BuildInterior ==
    /\ pc = "interior"
    /\ x_int' = AddAxis(Take(Col(X, 0), id_f))
    /\ t_int' = AddAxis(Take(Col(T, 0), id_f))
    /\ x_int_train' = NdArray(Hstack(t_int', x_int'))
    /\ x_test' = NdArray(Hstack(Ts, Xs))
    /\ pc' = "tensors"
    /\ UNCHANGED << cfgVars, exc, axisVars, idVars, icVars, netVars, loopVars,
                    outVars, callVars >>

\* Lines 132-136: the four arrays become float32 tensors.
MakeTensors ==
    /\ pc = "tensors"
    /\ x_ic_train' = Tensor2(x_ic_train, FALSE)
    /\ x_int_train' = Tensor2(x_int_train, TRUE)
    /\ x_test' = Tensor2(x_test, FALSE)
    /\ u_ic_train' = Tensor1(u_ic_train)
    /\ pc' = "model"
    /\ UNCHANGED << cfgVars, exc, axisVars, idVars, x_ic, t_ic, x_int, t_int,
                    netVars, loopVars, outVars, callVars >>

NextSample ==
    BuildAxes \/ SampleIc \/ SampleF \/ BuildIC \/ BuildInterior \/ MakeTensors

SampleInit ==
    \E nx \in 1..SMaxNx, nt \in 1..SMaxNt :
      \E ni \in 1..nx, nf \in 1..Min(SMaxNf, nx * nt) :
        InitState(ProgramCfg(nx, nt, ni, nf, 1))

SpecSample == SampleInit /\ [][NextSample]_vars

\* ------------------------------------------------------------- training
Line(src, e, a, b) == [src |-> src, epoch |-> e, pde |-> a, ic |-> b]

\* Lines 139-142: DNN() and Adam over its parameters.
InitModel ==
    /\ pc = "model"
    /\ theta' = << >> /\ grad' = << >> /\ adam_step' = 0
    /\ pc' = "start"
    /\ UNCHANGED << cfgVars, exc, axisVars, idVars, icVars, intVars, loopVars,
                    outVars, callVars >>

\* Lines 165-166.
StartTraining ==
    /\ pc = "start"
    /\ stdout' = Append(stdout, Line("start", 0, TRUE, TRUE))
    /\ pc' = "for"
    /\ UNCHANGED << cfgVars, exc, axisVars, idVars, icVars, intVars, netVars,
                    loopVars, u_pred, mat, callVars >>

\* The loop of line 167 stopping one epoch early: range(1, epochs).
ForEpoch_short ==
    /\ pc = "for"
    /\ IF epoch + 1 < cfg.epochs
       THEN /\ epoch' = epoch + 1
            /\ pc' = "zero_grad"
            /\ UNCHANGED stdout
       ELSE /\ stdout' = Append(stdout, Line("total", epoch, TRUE, TRUE))
            /\ pc' = "eval"
            /\ UNCHANGED epoch
    /\ UNCHANGED << cfgVars, exc, axisVars, idVars, icVars, intVars, netVars,
                    loss_pde, loss_ic, loss, u_pred, mat, callVars >>

\* Line 167, for epoch in range(1, epochs+1): the next epoch calls train(epoch)
\* (lines 145-147, 159: optimizer.step starts the closure); after the last one,
\* lines 169-170.
ForEpoch ==
    /\ pc = "for"
    /\ IF epoch < cfg.epochs
       THEN /\ epoch' = epoch + 1
            /\ pc' = "zero_grad"
            /\ UNCHANGED stdout
       ELSE /\ stdout' = Append(stdout, Line("total", epoch, TRUE, TRUE))
            /\ pc' = "eval"
            /\ UNCHANGED epoch
    /\ UNCHANGED << cfgVars, exc, axisVars, idVars, icVars, intVars, netVars,
                    loss_pde, loss_ic, loss, u_pred, mat, callVars >>

\* The closure without its zero_grad call: .grad keeps what it held.
ZeroGrad_skip ==
    /\ pc = "zero_grad"
    /\ pc' = "loss_pde"
    /\ UNCHANGED << cfgVars, exc, axisVars, idVars, icVars, intVars, netVars,
                    loopVars, outVars, callVars >>

\* Line 148.
ZeroGrad ==
    /\ pc = "zero_grad"
    /\ grad' = << >>
    /\ pc' = "loss_pde"
    /\ UNCHANGED << cfgVars, exc, axisVars, idVars, icVars, intVars, theta,
                    adam_step, loopVars, outVars, callVars >>

\* The residual loss on interior points drawn afresh in every epoch.
LossPde_resample ==
    /\ pc = "loss_pde"
    /\ \E ids \in Choice(cfg.num_x * cfg.num_t, cfg.num_f_train) :
         x_int_train' =
            Tensor2(NdArray(Hstack(AddAxis(Take(Col(T, 0), ids)),
                                   AddAxis(Take(Col(X, 0), ids)))), TRUE)
    /\ \E b \in FiniteOutcomes(theta, Len(x_int_train.data)) :
         loss_pde' = [kind |-> "pde", at |-> Len(theta),
                      n |-> Len(x_int_train.data), finite |-> b]
    /\ pc' = "loss_ic"
    /\ UNCHANGED << cfgVars, exc, axisVars, idVars, icVars, x_int, t_int, x_test,
                    netVars, epoch, loss_ic, loss, outVars, callVars >>

\* Line 149, DNN.loss_pde (lines 48-59): the mean of (u_t + F_x)**2 over the
\* interior batch; gradients() raises unless the batch requires grad.
LossPde ==
    /\ pc = "loss_pde"
    /\ IF ~x_int_train.requires_grad
       THEN /\ Raise("RuntimeError")
            /\ UNCHANGED loss_pde
       ELSE /\ \E b \in FiniteOutcomes(theta, Len(x_int_train.data)) :
                 loss_pde' = [kind |-> "pde", at |-> Len(theta),
                              n |-> Len(x_int_train.data), finite |-> b]
            /\ pc' = "loss_ic" /\ exc' = exc
    /\ UNCHANGED << cfgVars, axisVars, idVars, icVars, intVars, netVars, epoch,
                    loss_ic, loss, outVars, callVars >>

\* Line 150, DNN.loss_ic (lines 62-68): the mean of the squared residuals.
LossIc ==
    /\ pc = "loss_ic"
    /\ \E b \in FiniteOutcomes(theta, Len(IcResiduals(theta, x_ic_train, u_ic_train))) :
         loss_ic' = [kind |-> "ic", at |-> Len(theta),
                     n |-> Len(IcResiduals(theta, x_ic_train, u_ic_train)),
                     finite |-> b]
    /\ pc' = "backward_ready"
    /\ UNCHANGED << cfgVars, exc, axisVars, idVars, icVars, intVars, netVars,
                    epoch, loss_pde, loss, outVars, callVars >>

\* Lines 151-154: the weighted sum, and the line printed for the epoch.
Combine ==
    /\ pc = "backward_ready"
    /\ loss' = [kind |-> "total", at |-> Len(theta),
                terms |-> << [w |-> W_PDE, of |-> loss_pde],
                             [w |-> W_IC, of |-> loss_ic] >>,
                finite |-> loss_pde.finite /\ loss_ic.finite]
    /\ stdout' = Append(stdout, Line("closure", epoch, loss_pde.finite, loss_ic.finite))
    /\ pc' = "backward"
    /\ UNCHANGED << cfgVars, exc, axisVars, idVars, icVars, intVars, netVars,
                    epoch, loss_pde, loss_ic, u_pred, mat, callVars >>

\* A backward pass that also moves the parameters.
Backward_inplace ==
    /\ pc = "backward"
    /\ grad' = Append(grad, loss)
    /\ theta' = Append(theta, grad')
    /\ pc' = "adam"
    /\ UNCHANGED << cfgVars, exc, axisVars, idVars, icVars, intVars, adam_step,
                    loopVars, outVars, callVars >>

\* Lines 155-156: loss.backward() adds the gradient of loss to .grad.
Backward ==
    /\ pc = "backward"
    /\ grad' = Append(grad, loss)
    /\ pc' = "adam"
    /\ UNCHANGED << cfgVars, exc, axisVars, idVars, icVars, intVars, theta,
                    adam_step, loopVars, outVars, callVars >>

\* Line 159, after the closure returned: Adam's update from .grad.
AdamStep ==
    /\ pc = "adam"
    /\ theta' = Append(theta, grad)
    /\ adam_step' = adam_step + 1
    /\ pc' = "report"
    /\ UNCHANGED << cfgVars, exc, axisVars, idVars, icVars, intVars, grad,
                    loopVars, outVars, callVars >>

\* Lines 160-162, and train() returns: its locals are gone.
Report ==
    /\ pc = "report"
    /\ stdout' = Append(stdout, Line("train", epoch, loss.finite, loss.finite))
    /\ loss_pde' = NoLoss /\ loss_ic' = NoLoss /\ loss' = NoTotal
    /\ pc' = "for"
    /\ UNCHANGED << cfgVars, exc, axisVars, idVars, icVars, intVars, netVars,
                    epoch, u_pred, mat, callVars >>

\* ----------------------------------------------------------- evaluation
\* Line 173.
Evaluate ==
    /\ pc = "eval"
    /\ IF to_numpyRaises(Forward(theta, x_test))
       THEN /\ Raise("TypeError")
            /\ UNCHANGED u_pred
       ELSE /\ u_pred' = to_numpy(Forward(theta, x_test))
            /\ pc' = "save" /\ exc' = exc
    /\ UNCHANGED << cfgVars, axisVars, idVars, icVars, intVars, netVars, loopVars,
                    stdout, mat, callVars >>

\* Line 174: savemat of {'x': xs, 't': ts, 'u': u_pred[:,0]}.
Save ==
    /\ pc = "save"
    /\ mat' = << [x |-> xs, t |-> ts, u |-> Col(u_pred.data, 0)] >>
    /\ pc' = "done"
    /\ UNCHANGED << cfgVars, exc, axisVars, idVars, icVars, intVars, netVars,
                    loopVars, stdout, u_pred, callVars >>

Next ==
    \/ BuildAxes \/ SampleIc \/ SampleF \/ BuildIC \/ BuildInterior \/ MakeTensors
    \/ InitModel \/ StartTraining \/ ForEpoch
    \/ ZeroGrad \/ LossPde \/ LossIc \/ Combine \/ Backward \/ AdamStep \/ Report
    \/ Evaluate \/ Save

Spec == Init /\ [][Next]_vars

FairInit ==
    \E nx \in 1..FMaxN, nt \in 1..FMaxN, ep \in 1..FMaxEpochs :
      \E nf \in 1..(nx * nt) :
        InitState(ProgramCfg(nx, nt, nx, nf, ep))

\* main() runs on one thread and nothing suspends it: a statement that can
\* run does run.
FairSpec == FairInit /\ [][Next]_vars /\ WF_vars(Next)

\* ------------------------------------------------- other configurations
CfgMaxN == 2        \* configuration run: grid resolutions -1..CfgMaxN
CfgMaxS == 3        \* configuration run: sample counts 1..CfgMaxS

\* The constants of lines 106-113 with one pair of axis bounds changed:
\* swapped (lower > upper) or collapsed (lower = upper).
Malformed(c, how) ==
    CASE how = "x_swapped" -> [c EXCEPT !.x_lo = c.x_hi, !.x_hi = c.x_lo]
      [] how = "x_equal" -> [c EXCEPT !.x_hi = c.x_lo]
      [] how = "xs_swapped" -> [c EXCEPT !.xs_lo = c.xs_hi, !.xs_hi = c.xs_lo]
      [] how = "t_swapped" -> [c EXCEPT !.t_lo = c.t_hi, !.t_hi = c.t_lo]
      [] how = "ts_equal" -> [c EXCEPT !.ts_hi = c.ts_lo]
      [] OTHER -> c

BoundsCases == {"well_formed", "x_swapped", "x_equal", "xs_swapped", "t_swapped", "ts_equal"}

\* main() with other values in lines 101-113: any resolution from -1 up, any
\* positive sample counts, any of the bounds cases; one epoch.
CfgInit ==
    \E nx \in (-1)..CfgMaxN, nt \in (-1)..CfgMaxN :
      \E ni \in 1..CfgMaxS, nf \in 1..CfgMaxS, how \in BoundsCases :
        InitState(Malformed(ProgramCfg(nx, nt, ni, nf, 1), how))

SpecCfg == CfgInit /\ [][Next]_vars

\* ------------------------------------------------------ IC on its own
X_M05001 == -((5001 * Unit) \div 10000)     \* -0.5001
X_M05 == -((5 * Unit) \div 10)              \* -0.5
X_M025 == -((25 * Unit) \div 100)           \* -0.25
X_0 == 0 * Unit                             \* 0
X_00001 == Unit \div 10000                  \* 0.0001
X_1 == 1 * Unit                             \* 1

TestXs == {X_M05001, X_M05, X_M025, X_0, X_00001, X_1}

\* Every (N, 1) array over TestXs with N up to MaxLen.
TestArrays == UNION { [1..n -> {<< v >> : v \in TestXs}] : n \in 0..MaxLen }

ICInit ==
    \E a \in TestArrays :
        Unbound(ProgramCfg(1, 1, 1, 1, 1)) /\ pc = "IC" /\ x_arg = a

\* u_init = IC(x) for an array x.
CallIC ==
    /\ pc = "IC"
    /\ u_init' = IC(x_arg)
    /\ pc' = "IC_ret"
    /\ UNCHANGED << cfgVars, exc, axisVars, idVars, icVars, intVars, netVars,
                    loopVars, outVars, x_arg >>

SpecIC == ICInit /\ [][CallIC]_vars

\* ---------------------------------------------------------------- claims
Idle == pc \in {"axes", "id_ic", "id_f", "ic", "interior", "tensors", "model", "start"}
Running == pc \in {"for", "zero_grad", "loss_pde", "loss_ic", "backward_ready",
                   "backward", "adam", "report"}
Converged == pc \in {"eval", "save", "done"}

\* The initial profile as the problem states it: 1 on [-0.5, 0], else 0.
Profile(v) == IF -Unit <= 2 * v /\ v <= 0 THEN 1 ELSE 0

\* Point i of an n-point partition of [lo, hi] (i from 0).
AxisPoint(lo, hi, n, i) == IF n = 1 THEN lo ELSE lo + (i * (hi - lo)) \div (n - 1)

Distinct(s) == \A i, j \in 1..Len(s) : i # j => s[i] # s[j]

\* C1: IC returns one value per input x, in the same order, each in {0,1}:
\* 1 exactly when -0.5 <= x <= 0, so -0.5, -0.25 and 0 give 1 and -0.5001,
\* 0.0001 and 1 give 0.
C1_ICValues ==
    pc = "IC_ret" =>
        /\ Len(u_init) = Len(x_arg)
        /\ \A i \in 1..Len(x_arg) :
            /\ u_init[i] \in {0, 1}
            /\ u_init[i] = Profile(x_arg[i][1])
            /\ x_arg[i][1] \in {X_M05, X_M025, X_0} => u_init[i] = 1
            /\ x_arg[i][1] \in {X_M05001, X_00001, X_1} => u_init[i] = 0

C1_Witness ==
    /\ pc = "IC_ret"
    /\ x_arg = << << X_M05001 >>, << X_M05 >>, << X_0 >>, << X_00001 >> >>
    /\ u_init = << 0, 1, 1, 0 >>

\* C2: the flattened training grid has x as the slow and t as the fast index,
\* T[k] = t[k mod n_t] and X[k] = x[k div n_t]; every interior point is the
\* (t, x) of the one grid cell its drawn index names, the drawn indices are
\* pairwise distinct, and there are exactly n_f interior points.
C2_GridOrder ==
    pc = "model" =>
        /\ Len(T) = cfg.num_x * cfg.num_t
        /\ Len(X) = cfg.num_x * cfg.num_t
        /\ \A k \in 0..(cfg.num_x * cfg.num_t - 1) :
            /\ T[k + 1] = << t[(k % cfg.num_t) + 1] >>
            /\ X[k + 1] = << x[(k \div cfg.num_t) + 1] >>
        /\ Len(id_f) = cfg.num_f_train
        /\ Len(x_int_train.data) = cfg.num_f_train
        /\ Distinct(id_f)
        /\ \A j \in 1..Len(id_f) :
            /\ id_f[j] \in 0..(cfg.num_x * cfg.num_t - 1)
            /\ x_int_train.data[j] =
                  << F32(t[(id_f[j] % cfg.num_t) + 1]),
                     F32(x[(id_f[j] \div cfg.num_t) + 1]) >>

C2_Witness ==
    /\ pc = "model"
    /\ cfg.num_x = 3 /\ cfg.num_t = 2
    /\ id_f = << 3, 4 >>
    /\ x_int_train.data = << << T_HI, AxisPoint(X_LO, X_HI, 3, 1) >>,
                             << T_LO, X_HI >> >>

\* C3: IC sampling draws n_ic pairwise distinct indices of [0, n_x); IC point j
\* is (t[0], x[i]) for the j-th drawn index i, with t[0] = 0, and target j is
\* the initial profile at that same x[i], also as loss_ic pairs them; with
\* n_ic = n_x every x-axis point appears exactly once.
C3_IcPairs ==
    pc = "model" =>
        /\ Len(id_ic) = cfg.num_i_train
        /\ Distinct(id_ic)
        /\ Len(x_ic_train.data) = cfg.num_i_train
        /\ Len(u_ic_train.data) = cfg.num_i_train
        /\ t[1] = 0
        /\ \A j \in 1..Len(id_ic) :
            /\ id_ic[j] \in 0..(cfg.num_x - 1)
            /\ x_ic_train.data[j] = << F32(t[1]), F32(x[id_ic[j] + 1]) >>
            /\ u_ic_train.data[j] = Profile(x[id_ic[j] + 1])
            /\ IcResiduals(theta, x_ic_train, u_ic_train)[j].pred.pt[2]
                  = F32(x[id_ic[j] + 1])
            /\ IcResiduals(theta, x_ic_train, u_ic_train)[j].target
                  = Profile(x[id_ic[j] + 1])
        /\ cfg.num_i_train = cfg.num_x =>
              \A i \in 0..(cfg.num_x - 1) :
                  Cardinality({j \in 1..Len(id_ic) : id_ic[j] = i}) = 1

C3_Witness ==
    /\ pc = "model"
    /\ cfg.num_x = 3 /\ cfg.num_i_train = 3
    /\ id_ic = << 1, 2, 0 >>
    /\ u_ic_train.data = << 1, 0, 0 >>

\* What one step of main() may do to the epoch counter and the step count.
C4_Step ==
    /\ epoch' # epoch =>
          /\ epoch' = epoch + 1 /\ epoch' <= cfg.epochs
          /\ adam_step = epoch /\ pc = "for"
    /\ adam_step' # adam_step =>
          /\ adam_step' = adam_step + 1 /\ adam_step' = epoch
    /\ (Idle /\ ~Idle') => (Running' /\ epoch' = 0 /\ adam_step' = 0)
    /\ (Running /\ ~Running') =>
          (Converged' /\ epoch = cfg.epochs /\ adam_step = cfg.epochs)
    /\ (pc = "for" /\ epoch = cfg.epochs) => Converged'
    /\ Converged => Converged'

\* C4: the loop goes Idle -> Running -> Converged: once running it always
\* reaches Converged; the epoch counter goes 1, 2, ..., EPOCHS by steps of one;
\* every epoch has exactly one optimizer step, EPOCHS in all; and Converged is
\* entered exactly when the budget is exhausted, whatever the losses were.
C4_TrainingLoop ==
    /\ [][C4_Step]_vars
    /\ [](Converged => (epoch = cfg.epochs /\ adam_step = cfg.epochs))
    /\ [](Running => <>Converged)
    /\ <>(pc = "done")

C4_Witness ==
    /\ pc = "done"
    /\ cfg.epochs > 1
    /\ epoch = cfg.epochs /\ adam_step = cfg.epochs
    /\ \E i \in 1..Len(stdout) : stdout[i].src = "closure" /\ ~stdout[i].pde

\* The order of the statements of one epoch, and what each of them does.
EpochOrder ==
    { << "for", "zero_grad" >>, << "zero_grad", "loss_pde" >>,
      << "loss_pde", "loss_ic" >>, << "loss_ic", "backward_ready" >>,
      << "backward_ready", "backward" >>, << "backward", "adam" >>,
      << "adam", "report" >>, << "report", "for" >>, << "for", "eval" >> }

WeightedSum(l, at) ==
    /\ l.kind = "total" /\ l.at = at
    /\ Len(l.terms) = 2
    /\ 10 * l.terms[1].w = Unit /\ l.terms[1].of.kind = "pde" /\ l.terms[1].of.at = at
    /\ l.terms[2].w = 10 * Unit /\ l.terms[2].of.kind = "ic" /\ l.terms[2].of.at = at

C5_Step ==
    /\ Running => << pc, pc' >> \in EpochOrder
    /\ pc = "zero_grad" => (grad' = << >> /\ theta' = theta)
    /\ pc = "loss_pde" => (loss_pde'.kind = "pde" /\ loss_ic'.kind = "unbound"
                           /\ grad' = << >> /\ theta' = theta)
    /\ pc = "loss_ic" => (loss_ic'.kind = "ic" /\ loss_pde' = loss_pde
                          /\ loss'.kind = "unbound" /\ grad' = << >> /\ theta' = theta)
    /\ pc = "backward_ready" => (WeightedSum(loss', Len(theta)) /\ grad' = << >>
                                 /\ loss'.terms[1].of = loss_pde
                                 /\ loss'.terms[2].of = loss_ic /\ theta' = theta)
    /\ pc = "backward" => (grad' = << loss >> /\ theta' = theta)
    /\ pc = "adam" => (theta' = Append(theta, grad) /\ grad = << loss >>
                       /\ Len(theta) = epoch - 1)
    /\ Running => (epoch' # epoch <=> pc' = "zero_grad")

\* C5: in every epoch the closure zeroes the gradients, computes the residual
\* loss, then the IC loss, combines them as 0.1*loss_pde + 10*loss_ic and
\* back-propagates, and only then the optimizer updates; so every update uses
\* the gradient of one evaluation of the combined loss, made at the parameters
\* the previous epoch left.
C5_EpochOrder ==
    /\ [][C5_Step]_vars
    /\ [](\A i \in 1..Len(theta) :
             Len(theta[i]) = 1 /\ WeightedSum(theta[i][1], i - 1))

C5_Witness ==
    /\ pc = "report" /\ epoch = 2
    /\ Len(theta) = 2 /\ Len(theta[2]) = 1 /\ theta[2][1].at = 1

\* The drawn indices and the point sets built from them.
SampleSets == << id_ic, id_f, x_int_train, x_ic_train, u_ic_train, x_test >>

C6_Step ==
    /\ SampleSets' # SampleSets => (Idle /\ epoch = 0 /\ adam_step = 0)
    /\ id_ic' # id_ic => (pc = "id_ic" /\ id_ic = << >>)
    /\ id_f' # id_f => (pc = "id_f" /\ id_f = << >>)
    /\ pc \in {"model", "start"} => SampleSets' = SampleSets

\* C6: the interior points, the IC points with their targets and the dense
\* grid are drawn and built once, before the first epoch, and are the same in
\* every epoch and at export: no training or evaluation step changes them.
C6_SamplesFixed ==
    /\ [][C6_Step]_vars
    /\ []((Running \/ Converged) =>
            /\ x_int_train.type = "Tensor" /\ x_ic_train.type = "Tensor"
            /\ u_ic_train.type = "Tensor" /\ x_test.type = "Tensor"
            /\ Len(x_int_train.data) = cfg.num_f_train
            /\ Len(x_ic_train.data) = cfg.num_i_train)

C6_Witness ==
    /\ pc = "done" /\ epoch = 2
    /\ cfg.num_x * cfg.num_t > cfg.num_f_train
    /\ Len(x_int_train.data) = 2 /\ x_test.type = "Tensor"

\* Where the parameters may change.
C7_Step ==
    /\ theta' # theta => (pc = "adam" /\ pc' = "report" /\ adam_step' = adam_step + 1)
    /\ pc \in {"loss_pde", "loss_ic", "backward_ready", "backward", "eval", "save"}
          => theta' = theta
    /\ Converged => theta' = theta

\* C7: only the optimizer step of an epoch changes the parameters: the two
\* loss computations, back-propagation and the final forward pass leave them as
\* they are, and nothing changes them once Converged.
C7_OnlyOptimizer == [][C7_Step]_vars

C7_Witness ==
    /\ pc = "save" /\ Len(theta) = 2
    /\ u_pred.type = "ndarray" /\ u_pred.data[1][1].params = 2

\* The physical axes, and the exported artifact at the end of main().
PhysX(i) == AxisPoint(-Unit, Unit, cfg.num_x, i)
PhysT(j) == AxisPoint(0, (3 * Unit) \div 2, cfg.num_t, j)

\* The field as n_x rows of n_t columns.
Reshape(u, nx, nt) == [i \in 1..nx |-> [j \in 1..nt |-> u[(i - 1) * nt + j]]]

C9_Export ==
    pc = "done" =>
        /\ Len(mat) = 1
        /\ Len(mat[1].u) = cfg.num_x * cfg.num_t
        /\ Len(mat[1].x) = cfg.num_x /\ Len(mat[1].t) = cfg.num_t
        /\ \A i \in 1..cfg.num_x : mat[1].x[i] = PhysX(i - 1)
        /\ \A j \in 1..cfg.num_t : mat[1].t[j] = PhysT(j - 1)
        /\ \A k \in 0..(cfg.num_x * cfg.num_t - 1) :
              mat[1].u[k + 1] =
                  Net(theta, << F32(PhysT(k % cfg.num_t)),
                                F32(PhysX(k \div cfg.num_t)) >>)
        /\ \A i \in 1..cfg.num_x : \A j \in 1..cfg.num_t :
              Reshape(mat[1].u, cfg.num_x, cfg.num_t)[i][j].pt
                  = << F32(mat[1].t[j]), F32(mat[1].x[i]) >>
        /\ Len(theta) = cfg.epochs

C9_Step ==
    /\ u_pred' # u_pred => (pc = "eval" /\ u_pred = None /\ Len(theta) = cfg.epochs)
    /\ mat' # mat => (pc = "save" /\ mat = << >>)

\* C9: once Converged one forward pass runs over the dense grid of the
\* physical axes (x in [-1,1], t in [0,1.5]); the field has n_x*n_t entries,
\* entry k the prediction at (t_phys[k mod n_t], x_phys[k div n_t]), so that
\* n_x rows of n_t columns give back the axis order; the artifact holds the
\* field with the physical x-axis (n_x values) and t-axis (n_t values).
C9_ExportOnce == [](C9_Export) /\ [][C9_Step]_vars

C9_Witness ==
    /\ pc = "done"
    /\ cfg.num_x = 2 /\ cfg.num_t = 2
    /\ Len(mat[1].u) = 4
    /\ mat[1].u[2].pt = << (3 * Unit) \div 2, -Unit >>
    /\ mat[1].u[3].pt = << 0, Unit >>

\* A configuration outside the stated bounds.
ConfigError ==
    \/ cfg.num_i_train > cfg.num_x
    \/ cfg.num_f_train > cfg.num_x * cfg.num_t
    \/ cfg.num_x <= 0 \/ cfg.num_t <= 0
    \/ cfg.x_lo >= cfg.x_hi \/ cfg.t_lo >= cfg.t_hi
    \/ cfg.xs_lo >= cfg.xs_hi \/ cfg.ts_lo >= cfg.ts_hi

NonFiniteSeen ==
    \E i \in 1..Len(stdout) :
        stdout[i].src = "closure" /\ ~(stdout[i].pde /\ stdout[i].ic)

\* C10: when a loss is non-finite in some epoch, the run reports diverged
\* training and exports no field computed from the diverged parameters.
C10_DivergenceReported ==
    (NonFiniteSeen /\ ~Running) => (pc = "error" /\ u_pred = None /\ mat = << >>)

====
